---- MODULE Spec2Model ----
(***************************************************************************)
(* Model of gemini_pipeline.py: the BibTeX file-field resolver and the     *)
(* sequential per-document pipeline (upload, generate, persist, archive,   *)
(* remote delete) with its shared reference-manual attachment.             *)
(*                                                                         *)
(* Python strings are sequences of one-character strings, None is the      *)
(* tuple <<"None">> (no Python string of the model is a one-element tuple  *)
(* holding a four-letter string).                                          *)
(***************************************************************************)
EXTENDS Integers, Sequences, FiniteSets, TLC

VARIABLES
    pc,                  \* position of the interpreter in the script
    env,                 \* what the run finds: credential, files, directory listing
    master_prompt,       \* main(): text read from MASTER_PROMPT_FILE
    pdf_citekey_map,     \* main(): filename -> citekey
    siunitx_manual_file, \* main(): handle of the shared attachment, or None
    pdf_files,           \* main(): the files the scan returned
    idx,                 \* main(): position of the for loop in pdf_files
    citekey,             \* main(): resolved key of the current document
    uploaded_file,       \* main(): handle of the current document
    response,            \* main(): generation result of the current document
    sink,                \* contents of SUMMARIES_FILE, one element per write
    input_dir,           \* filenames in PAPERS_TO_READ_DIR
    archive_dir,         \* filenames in READ_PAPERS_DIR
    next_handle,         \* the service's counter of handles handed out
    out,                 \* what was printed, in order
    calls,               \* calls made to the service and to time.sleep, in order
    exit_status,         \* status of the process once it ended
    file_field_string,   \* argument of a direct call of parse_file_path_from_entry
    parse_result,        \* what that call returned
    bib_entries,         \* argument of a direct call of create_pdf_to_citekey_map
    mapping_result       \* what that call returned

vars == <<pc, env, master_prompt, pdf_citekey_map, siunitx_manual_file, pdf_files,
          idx, citekey, uploaded_file, response, sink, input_dir, archive_dir,
          next_handle, out, calls, exit_status, file_field_string, parse_result,
          bib_entries, mapping_result>>

None == <<"None">>

(***************************************************************************)
(* Bounds of the model.                                                    *)
(***************************************************************************)
\* longest directory listing the scan is given
MaxDocs == 2
\* number of fragments a generated file-field string is made of, at most
MaxFrags == 4

(***************************************************************************)
(* str methods used by the script.                                         *)
(***************************************************************************)
LowerChar(c) ==
    CASE c = "P" -> "p" [] c = "D" -> "d" [] c = "F" -> "f"
      [] c = "H" -> "h" [] c = "T" -> "t" [] c = "M" -> "m" [] c = "L" -> "l"
      [] c = "X" -> "x" [] c = "A" -> "a" [] c = "B" -> "b"
      [] OTHER -> c

lower(s) == [i \in 1..Len(s) |-> LowerChar(s[i])]

endswith(s, suf) ==
    /\ Len(s) >= Len(suf)
    /\ SubSeq(s, Len(s) - Len(suf) + 1, Len(s)) = suf

\* sub in s
contains(s, sub) ==
    \E i \in 0..(Len(s) - Len(sub)) : SubSeq(s, i + 1, i + Len(sub)) = sub

RECURSIVE split(_, _)
split(s, sep) ==
    IF \A i \in 1..Len(s) : s[i] # sep
    THEN <<s>>
    ELSE LET k == CHOOSE k \in 1..Len(s) :
                      s[k] = sep /\ \A j \in 1..(k - 1) : s[j] # sep
         IN  <<SubSeq(s, 1, k - 1)>> \o split(SubSeq(s, k + 1, Len(s)), sep)

DotPdf == <<".", "p", "d", "f">>
DotHtml == <<".", "h", "t", "m", "l">>

\* s.lower().endswith(('.pdf', '.html'))
is_paper_name(s) == endswith(lower(s), DotPdf) \/ endswith(lower(s), DotHtml)

\* os.path.basename (posixpath)
basename(p) ==
    LET slashes == {i \in 1..Len(p) : p[i] = "/"}
    IN  IF slashes = {} THEN p
        ELSE SubSeq(p, (CHOOSE i \in slashes : \A j \in slashes : j <= i) + 1, Len(p))

\* os.path.splitext(p)[0] (genericpath._splitext: a dot that only follows
\* leading dots of the last component starts no extension)
splitext_root(p) ==
    LET Last(ch) == IF \E i \in 1..Len(p) : p[i] = ch
                    THEN CHOOSE i \in 1..Len(p) :
                             p[i] = ch /\ \A j \in (i + 1)..Len(p) : p[j] # ch
                    ELSE 0
        sepIndex == Last("/")
        dotIndex == Last(".")
    IN  IF /\ dotIndex > sepIndex
           /\ \E k \in (sepIndex + 1)..(dotIndex - 1) : p[k] # "."
        THEN SubSeq(p, 1, dotIndex - 1)
        ELSE p

(***************************************************************************)
(* parse_file_path_from_entry                                              *)
(***************************************************************************)
\* for segment in reversed(path_segments): the first that ends in .pdf/.html,
\* scanning from position n down; None when the loop falls through
RECURSIVE scan_segments(_, _)
scan_segments(path_segments, n) ==
    IF n = 0 THEN None
    ELSE IF is_paper_name(path_segments[n]) THEN path_segments[n]
    ELSE scan_segments(path_segments, n - 1)

\* the same loop without reversed(): a first-to-last scan
RECURSIVE scan_segments_forward(_, _)
scan_segments_forward(path_segments, n) ==
    IF n > Len(path_segments) THEN None
    ELSE IF is_paper_name(path_segments[n]) THEN path_segments[n]
    ELSE scan_segments_forward(path_segments, n + 1)

\* for part in parts, from position n on
RECURSIVE scan_parts(_, _)
scan_parts(parts, n) ==
    IF n > Len(parts) THEN None
    ELSE LET part == parts[n]
             path_segments == split(part, ":")
             found == scan_segments(path_segments, Len(path_segments))
         IN  IF /\ contains(lower(part), DotPdf) \/ contains(lower(part), DotHtml)
                /\ found # None
             THEN found
             ELSE scan_parts(parts, n + 1)

RECURSIVE scan_parts_forward(_, _)
scan_parts_forward(parts, n) ==
    IF n > Len(parts) THEN None
    ELSE LET part == parts[n]
             found == scan_segments_forward(split(part, ":"), 1)
         IN  IF /\ contains(lower(part), DotPdf) \/ contains(lower(part), DotHtml)
                /\ found # None
             THEN found
             ELSE scan_parts_forward(parts, n + 1)

parse_forward(s) ==
    IF s = None \/ s = <<>> THEN None ELSE scan_parts_forward(split(s, ";"), 1)

parse_file_path_from_entry(s) ==
    IF s = None \/ s = <<>> THEN None ELSE scan_parts(split(s, ";"), 1)

(***************************************************************************)
(* create_pdf_to_citekey_map: entries are records [ID, file], a missing    *)
(* field is None (entry.get).  The mapping is a function on filenames.     *)
(***************************************************************************)
\* the same loop keeping the first citekey recorded for a filename
RECURSIVE build_mapping_first_wins(_, _, _)
build_mapping_first_wins(entries, n, mapping) ==
    IF n > Len(entries) THEN mapping
    ELSE LET entry == entries[n]
             pdf_path == parse_file_path_from_entry(entry.file)
         IN  IF entry.ID = None \/ entry.ID = <<>>
                \/ entry.file = None \/ entry.file = <<>>
                \/ pdf_path = None
             THEN build_mapping_first_wins(entries, n + 1, mapping)
             ELSE build_mapping_first_wins(entries, n + 1,
                      [f \in DOMAIN mapping \cup {basename(pdf_path)} |->
                          IF f \in DOMAIN mapping THEN mapping[f] ELSE entry.ID])

RECURSIVE build_mapping(_, _, _)
build_mapping(entries, n, mapping) ==
    IF n > Len(entries) THEN mapping
    ELSE LET entry == entries[n]
             pdf_path == parse_file_path_from_entry(entry.file)
         IN  IF entry.ID = None \/ entry.ID = <<>>
                \/ entry.file = None \/ entry.file = <<>>
                \/ pdf_path = None
             THEN build_mapping(entries, n + 1, mapping)
             ELSE build_mapping(entries, n + 1,
                      [f \in DOMAIN mapping \cup {basename(pdf_path)} |->
                          IF f = basename(pdf_path) THEN entry.ID ELSE mapping[f]])

create_pdf_to_citekey_map(entries) == build_mapping(entries, 1, <<>>)

(***************************************************************************)
(* The script run as a program.  The interpreter's position is pc; every   *)
(* call into the file system, the service or the clock may succeed or      *)
(* raise, which the action decides with \E.                                *)
(***************************************************************************)
Msg(m, d) == [msg |-> m, doc |-> d]
Call(o, d, a, r, k) == [op |-> o, doc |-> d, arg |-> a, res |-> r, ok |-> k]

\* handle objects the service returns; the n-th upload gets files/n
Handle(n) == <<"files/", ToString(n)>>
\* response.text of the generation requested for the document at position i
Text(i) == <<"summary of document ", ToString(i)>>
\* contents of MASTER_PROMPT_FILE
PromptText == <<"m", "a", "s", "t", "e", "r">>
\* SIUNITX_MANUAL
ManualPath ==
    <<"a", "s", "s", "e", "t", "s", "/", "s", "i", "u", "n", "i", "t", "x",
      ".", "p", "d", "f">>

\* files the input directory may hold
Names ==
    { <<"a", ".", "p", "d", "f">>, <<"b", ".", "P", "D", "F">>,
      <<"a", ".", "h", "t", "m", "l">>, <<"n", ".", "t", "x", "t">> }

\* what os.listdir may return: distinct names in any order
RECURSIVE Listings(_)
Listings(n) ==
    IF n = 0 THEN {<<>>}
    ELSE LET prev == Listings(n - 1)
         IN  prev \cup UNION {{Append(l, f) : f \in Names \ {l[i] : i \in 1..Len(l)}} :
                                 l \in prev}

\* bibliographies references.bib may hold, as bibtexparser's entries
BibEntries ==
    << [ID |-> <<"k", "1">>,
        file |-> <<":", "d", "/", "a", ".", "p", "d", "f", ":", "P", "D", "F">>],
       [ID |-> <<"k", "2">>,
        file |-> <<"x", ";", ":", "e", "/", "a", ".", "p", "d", "f", ":", "P", "D", "F">>],
       [ID |-> <<"b">>, file |-> <<"b", ".", "P", "D", "F">>],
       [ID |-> None, file |-> <<"a", ".", "h", "t", "m", "l">>],
       [ID |-> <<"k", "3">>, file |-> None] >>

Bibs == {<<>>, BibEntries}

\* one record of SUMMARIES_FILE left by an earlier run
OldRecord ==
    << [kind |-> "header", val |-> <<"o", "l", "d">>],
       [kind |-> "text", val |-> <<"summary of an earlier run">>],
       [kind |-> "separator", val |-> <<>>] >>

Init ==
    /\ pc = "configure"
    /\ \E l \in Listings(MaxDocs), s \in {<<>>, OldRecord} :
          /\ env = [credential |-> "unread", prompt |-> "unread", bib |-> "unread",
                    manual |-> "unread", dir |-> "unread", listing |-> l, sink0 |-> s]
          /\ input_dir = {l[i] : i \in 1..Len(l)}
          /\ sink = s
    /\ master_prompt = None
    /\ pdf_citekey_map = <<>>
    /\ siunitx_manual_file = None
    /\ pdf_files = <<>>
    /\ idx = 0
    /\ citekey = None
    /\ uploaded_file = None
    /\ response = None
    /\ archive_dir = {}
    /\ next_handle = 1
    /\ out = <<>>
    /\ calls = <<>>
    /\ exit_status = -1
    /\ file_field_string = None
    /\ parse_result = None
    /\ bib_entries = <<>>
    /\ mapping_result = None

\* main() returns, or sys.exit(status), or an exception leaves main()
Exit(status) == pc' = "done" /\ exit_status' = status

ParseVars == <<file_field_string, parse_result, bib_entries, mapping_result>>

\* lines 40-52
ConfigureApi ==
    /\ pc = "configure"
    /\ \E key \in {"env", "inline", "none"} :
          /\ env' = [env EXCEPT !.credential = key]
          /\ IF key = "env"
             THEN /\ out' = Append(out, Msg("configured from environment", 0))
                  /\ pc' = "setup_directories"
                  /\ UNCHANGED exit_status
             ELSE IF key = "inline"
             THEN /\ out' = Append(out, Msg("configured from script file", 0))
                  /\ pc' = "setup_directories"
                  /\ UNCHANGED exit_status
             ELSE /\ out' = Append(out, Msg("ERROR: API key not found", 0))
                  /\ Exit(1)
    /\ UNCHANGED <<master_prompt, pdf_citekey_map, siunitx_manual_file, pdf_files,
                   idx, citekey, uploaded_file, response, sink, input_dir,
                   archive_dir, next_handle, calls, ParseVars>>

\* lines 103-108, called at 114
setup_directories ==
    /\ pc = "setup_directories"
    /\ out' = Append(out, Msg("directories are set up", 0))
    /\ pc' = "load_prompt"
    /\ UNCHANGED <<env, master_prompt, pdf_citekey_map, siunitx_manual_file,
                   pdf_files, idx, citekey, uploaded_file, response, sink,
                   input_dir, archive_dir, next_handle, calls, exit_status,
                   ParseVars>>

\* the same step with the FileNotFoundError handler falling through
LoadPrompt_no_return ==
    /\ pc = "load_prompt"
    /\ \E found \in BOOLEAN :
          /\ env' = [env EXCEPT !.prompt = IF found THEN "read" ELSE "missing"]
          /\ master_prompt' = PromptText
          /\ out' = Append(out, Msg(IF found THEN "loaded master prompt"
                                    ELSE "ERROR: master prompt not found", 0))
          /\ pc' = "load_bib"
          /\ UNCHANGED exit_status
    /\ UNCHANGED <<pdf_citekey_map, siunitx_manual_file, pdf_files, idx, citekey,
                   uploaded_file, response, sink, input_dir, archive_dir,
                   next_handle, calls, ParseVars>>

\* lines 116-124
LoadPrompt ==
    /\ pc = "load_prompt"
    /\ \E found \in BOOLEAN :
          IF found
          THEN /\ env' = [env EXCEPT !.prompt = "read"]
               /\ master_prompt' = PromptText
               /\ out' = Append(out, Msg("loaded master prompt", 0))
               /\ pc' = "load_bib"
               /\ UNCHANGED exit_status
          ELSE /\ env' = [env EXCEPT !.prompt = "missing"]
               /\ out' = Append(out, Msg("ERROR: master prompt not found", 0))
               /\ Exit(0)
               /\ UNCHANGED master_prompt
    /\ UNCHANGED <<pdf_citekey_map, siunitx_manual_file, pdf_files, idx, citekey,
                   uploaded_file, response, sink, input_dir, archive_dir,
                   next_handle, calls, ParseVars>>

\* lines 126-137
LoadBib ==
    /\ pc = "load_bib"
    /\ \/ \E entries \in Bibs :
             LET mapping == create_pdf_to_citekey_map(entries)
             IN  /\ env' = [env EXCEPT !.bib = "parsed"]
                 /\ pdf_citekey_map' = mapping
                 /\ out' = IF DOMAIN mapping = {}
                           THEN Append(out, Msg("WARNING: no valid file entries", 0))
                           ELSE out
                 /\ pc' = "upload_manual"
                 /\ UNCHANGED exit_status
       \/ \E why \in {"missing", "unparseable"} :
             /\ env' = [env EXCEPT !.bib = why]
             /\ out' = Append(out, Msg(IF why = "missing"
                                       THEN "ERROR: BibTeX file not found"
                                       ELSE "ERROR: failed to parse BibTeX file", 0))
             /\ Exit(0)
             /\ UNCHANGED pdf_citekey_map
    /\ UNCHANGED <<master_prompt, siunitx_manual_file, pdf_files, idx, citekey,
                   uploaded_file, response, sink, input_dir, archive_dir,
                   next_handle, calls, ParseVars>>

\* lines 139-150
UploadManual ==
    /\ pc = "upload_manual"
    /\ \/ /\ env' = [env EXCEPT !.manual = "uploaded"]
          /\ siunitx_manual_file' = Handle(next_handle)
          /\ next_handle' = next_handle + 1
          /\ calls' = Append(calls, Call("upload", 0, ManualPath, Handle(next_handle), TRUE))
          /\ out' = Append(out, Msg("manual upload successful", 0))
       \/ /\ env' = [env EXCEPT !.manual = "upload failed"]
          /\ siunitx_manual_file' = None
          /\ calls' = Append(calls, Call("upload", 0, ManualPath, None, FALSE))
          /\ out' = Append(out, Msg("WARNING: could not upload reference manual", 0))
          /\ UNCHANGED next_handle
       \/ /\ env' = [env EXCEPT !.manual = "absent"]
          /\ out' = Append(out, Msg("INFO: reference manual not found", 0))
          /\ UNCHANGED <<siunitx_manual_file, next_handle, calls>>
    /\ pc' = "scan"
    /\ UNCHANGED <<master_prompt, pdf_citekey_map, pdf_files, idx, citekey,
                   uploaded_file, response, sink, input_dir, archive_dir,
                   exit_status, ParseVars>>

\* the listing taken without the extension filter
eligible_all(listing) == listing

\* line 154: the list comprehension over os.listdir
eligible(listing) ==
    LET Test(f) == is_paper_name(f) IN SelectSeq(listing, Test)

\* lines 152-166; FileNotFoundError is raised when the directory made by
\* setup_directories has been removed since
Scan ==
    /\ pc = "scan"
    /\ \/ /\ env' = [env EXCEPT !.dir = "missing"]
          /\ input_dir' = {}
          /\ out' = Append(out, Msg("ERROR: input directory does not exist", 0))
          /\ Exit(0)
          /\ UNCHANGED pdf_files
       \/ /\ env' = [env EXCEPT !.dir = "listed"]
          /\ pdf_files' = eligible(env.listing)
          /\ UNCHANGED input_dir
          /\ IF eligible(env.listing) = <<>>
             THEN /\ out' = Append(out, Msg("no new papers found", 0))
                  /\ Exit(0)
             ELSE /\ out' = Append(out, Msg("found files to process", 0))
                  /\ pc' = "for"
                  /\ UNCHANGED exit_status
    /\ UNCHANGED <<master_prompt, pdf_citekey_map, siunitx_manual_file, idx,
                   citekey, uploaded_file, response, sink, archive_dir,
                   next_handle, calls, ParseVars>>

\* the key taken from the filename without consulting the map
lookup_citekey_stem_only(mapping, pdf_file) == splitext_root(pdf_file)

\* line 173: pdf_citekey_map.get(pdf_file, os.path.splitext(pdf_file)[0])
lookup_citekey(mapping, pdf_file) ==
    IF pdf_file \in DOMAIN mapping THEN mapping[pdf_file] ELSE splitext_root(pdf_file)

\* lines 169-177: the for statement takes the next file, or the loop ends
NextDocument ==
    /\ pc = "for"
    /\ IF idx < Len(pdf_files)
       THEN LET pdf_file == pdf_files[idx + 1]
                key == lookup_citekey(pdf_citekey_map, pdf_file)
            IN  /\ idx' = idx + 1
                /\ citekey' = key
                /\ out' = out \o
                      << Msg("processing", idx + 1),
                         Msg(IF key = splitext_root(pdf_file)
                             THEN "WARNING: using filename as fallback"
                             ELSE "found citekey", idx + 1) >>
                /\ pc' = "upload"
       ELSE /\ pc' = "cleanup"
            /\ UNCHANGED <<idx, citekey, out>>
    /\ UNCHANGED <<env, master_prompt, pdf_citekey_map, siunitx_manual_file,
                   pdf_files, uploaded_file, response, sink, input_dir,
                   archive_dir, next_handle, calls, exit_status, ParseVars>>

\* the handler with break in the place of continue
OnException_break ==
    /\ out' = Append(out, Msg("ERROR: skipping this file", idx))
    /\ pc' = "cleanup"

\* lines 213-216: except Exception ... continue
OnException ==
    /\ out' = Append(out, Msg("ERROR: skipping this file", idx))
    /\ pc' = "for"

\* lines 181-183
UploadPaper ==
    /\ pc = "upload"
    /\ \/ /\ uploaded_file' = Handle(next_handle)
          /\ next_handle' = next_handle + 1
          /\ calls' = Append(calls, Call("upload", idx, pdf_files[idx],
                                         Handle(next_handle), TRUE))
          /\ out' = Append(out, Msg("upload successful", idx))
          /\ pc' = "generate"
       \/ /\ calls' = Append(calls, Call("upload", idx, pdf_files[idx], None, FALSE))
          /\ OnException
          /\ UNCHANGED <<uploaded_file, next_handle>>
    /\ UNCHANGED <<env, master_prompt, pdf_citekey_map, siunitx_manual_file,
                   pdf_files, idx, citekey, response, sink, input_dir,
                   archive_dir, exit_status, ParseVars>>

\* the list built with the attachment appended whether or not one is held
prompt_parts_unguarded(prompt, manual, uploaded) == <<prompt, manual, uploaded>>

\* the list built with the document ahead of the attachment
prompt_parts_swapped(prompt, manual, uploaded) ==
    <<prompt, uploaded>> \o (IF manual # None THEN <<manual>> ELSE <<>>)

\* lines 187-190
prompt_parts(prompt, manual, uploaded) ==
    <<prompt>> \o (IF manual # None THEN <<manual>> ELSE <<>>) \o <<uploaded>>

\* lines 186-192
Generate ==
    /\ pc = "generate"
    /\ LET parts == prompt_parts(master_prompt, siunitx_manual_file, uploaded_file)
       IN  \/ /\ calls' = Append(calls, Call("generate", idx, parts, Text(idx), TRUE))
              /\ response' = Text(idx)
              /\ pc' = "save"
              /\ UNCHANGED out
           \/ /\ calls' = Append(calls, Call("generate", idx, parts, None, FALSE))
              /\ OnException
              /\ UNCHANGED response
    /\ UNCHANGED <<env, master_prompt, pdf_citekey_map, siunitx_manual_file,
                   pdf_files, idx, citekey, uploaded_file, sink, input_dir,
                   archive_dir, next_handle, exit_status, ParseVars>>

\* lines 197-199: the three writes of one record
summary_writes(key, text) ==
    << [kind |-> "header", val |-> key],
       [kind |-> "text", val |-> text],
       [kind |-> "separator", val |-> <<>>] >>

\* the same step with a failed write swallowed: archival follows regardless
SaveSummary_ignore_failure ==
    /\ pc = "save"
    /\ \E written \in 0..3 :
          /\ sink' = sink \o SubSeq(summary_writes(citekey, response), 1, written)
          /\ out' = IF written = 3 THEN Append(out, Msg("summary appended", idx))
                    ELSE out
          /\ pc' = "archive"
    /\ UNCHANGED <<env, master_prompt, pdf_citekey_map, siunitx_manual_file,
                   pdf_files, idx, citekey, uploaded_file, response, input_dir,
                   archive_dir, next_handle, calls, exit_status, ParseVars>>

\* lines 195-201: open(..., 'a') raises (written = 0), or the evaluation of
\* response.text or a write raises after `written` writes, or all three are made
SaveSummary ==
    /\ pc = "save"
    /\ \E written \in 0..3 :
          /\ sink' = sink \o SubSeq(summary_writes(citekey, response), 1, written)
          /\ IF written = 3
             THEN /\ out' = Append(out, Msg("summary appended", idx))
                  /\ pc' = "archive"
             ELSE OnException
    /\ UNCHANGED <<env, master_prompt, pdf_citekey_map, siunitx_manual_file,
                   pdf_files, idx, citekey, uploaded_file, response, input_dir,
                   archive_dir, next_handle, calls, exit_status, ParseVars>>

\* the source directory after a copy in the place of the move
source_after_copy(dir, pdf_file) == dir

\* line 206: what shutil.move leaves in the source directory
source_after_move(dir, pdf_file) == dir \ {pdf_file}

\* the same step with a move that has removed the source when it raises
Archive_source_lost ==
    /\ pc = "archive"
    /\ \/ /\ input_dir' = source_after_move(input_dir, pdf_files[idx])
          /\ archive_dir' = archive_dir \cup {pdf_files[idx]}
          /\ calls' = Append(calls, Call("move", idx, pdf_files[idx], None, TRUE))
          /\ out' = Append(out, Msg("moved to archive", idx))
          /\ pc' = "delete"
       \/ /\ calls' = Append(calls, Call("move", idx, pdf_files[idx], None, FALSE))
          /\ OnException
          /\ input_dir' = input_dir \ {pdf_files[idx]}
          /\ UNCHANGED archive_dir
    /\ UNCHANGED <<env, master_prompt, pdf_citekey_map, siunitx_manual_file,
                   pdf_files, idx, citekey, uploaded_file, response, sink,
                   next_handle, exit_status, ParseVars>>

\* lines 204-207
Archive ==
    /\ pc = "archive"
    /\ \/ /\ input_dir' = source_after_move(input_dir, pdf_files[idx])
          /\ archive_dir' = archive_dir \cup {pdf_files[idx]}
          /\ calls' = Append(calls, Call("move", idx, pdf_files[idx], None, TRUE))
          /\ out' = Append(out, Msg("moved to archive", idx))
          /\ pc' = "delete"
       \/ /\ calls' = Append(calls, Call("move", idx, pdf_files[idx], None, FALSE))
          /\ OnException
          /\ UNCHANGED <<input_dir, archive_dir>>
    /\ UNCHANGED <<env, master_prompt, pdf_citekey_map, siunitx_manual_file,
                   pdf_files, idx, citekey, uploaded_file, response, sink,
                   next_handle, exit_status, ParseVars>>

\* lines 209-211
DeletePaper ==
    /\ pc = "delete"
    /\ \/ /\ calls' = Append(calls, Call("delete", idx, uploaded_file, None, TRUE))
          /\ pc' = "sleep"
          /\ UNCHANGED out
       \/ /\ calls' = Append(calls, Call("delete", idx, uploaded_file, None, FALSE))
          /\ OnException
    /\ UNCHANGED <<env, master_prompt, pdf_citekey_map, siunitx_manual_file,
                   pdf_files, idx, citekey, uploaded_file, response, sink,
                   input_dir, archive_dir, next_handle, exit_status, ParseVars>>

\* lines 218-219
Sleep ==
    /\ pc = "sleep"
    /\ calls' = Append(calls, Call("sleep", idx, <<>>, None, TRUE))
    /\ pc' = "for"
    /\ UNCHANGED <<env, master_prompt, pdf_citekey_map, siunitx_manual_file,
                   pdf_files, idx, citekey, uploaded_file, response, sink,
                   input_dir, archive_dir, next_handle, out, exit_status,
                   ParseVars>>

\* lines 221-224; the delete is outside every try, so its exception leaves
\* main() and the interpreter exits with status 1
CleanupManual ==
    /\ pc = "cleanup"
    /\ IF siunitx_manual_file # None
       THEN \/ /\ calls' = Append(calls, Call("delete", 0, siunitx_manual_file, None, TRUE))
               /\ pc' = "finished"
               /\ UNCHANGED exit_status
            \/ /\ calls' = Append(calls, Call("delete", 0, siunitx_manual_file, None, FALSE))
               /\ Exit(1)
       ELSE /\ pc' = "finished"
            /\ UNCHANGED <<calls, exit_status>>
    /\ UNCHANGED <<env, master_prompt, pdf_citekey_map, siunitx_manual_file,
                   pdf_files, idx, citekey, uploaded_file, response, sink,
                   input_dir, archive_dir, next_handle, out, ParseVars>>

\* lines 226-229
Finish ==
    /\ pc = "finished"
    /\ out' = Append(out, Msg("pipeline finished", 0))
    /\ Exit(0)
    /\ UNCHANGED <<env, master_prompt, pdf_citekey_map, siunitx_manual_file,
                   pdf_files, idx, citekey, uploaded_file, response, sink,
                   input_dir, archive_dir, next_handle, calls, ParseVars>>

Next ==
    \/ ConfigureApi
    \/ setup_directories
    \/ LoadPrompt
    \/ LoadBib
    \/ UploadManual
    \/ Scan
    \/ NextDocument
    \/ UploadPaper
    \/ Generate
    \/ SaveSummary
    \/ Archive
    \/ DeletePaper
    \/ Sleep
    \/ CleanupManual
    \/ Finish

Spec == Init /\ [][Next]_vars

(***************************************************************************)
(* What the claims speak of, read off the printed output and the calls.    *)
(***************************************************************************)
Printed(m, d) == \E n \in 1..Len(out) : out[n] = Msg(m, d)

LastPrinted(m) == Len(out) > 0 /\ out[Len(out)] = Msg(m, 0)

CallsOf(o, d) == {n \in 1..Len(calls) : calls[n].op = o /\ calls[n].doc = d}

Succeeded(o, d) ==
    \E n \in 1..Len(calls) : calls[n].op = o /\ calls[n].doc = d /\ calls[n].ok

Raised(o, d) ==
    \E n \in 1..Len(calls) : calls[n].op = o /\ calls[n].doc = d /\ ~ calls[n].ok

\* the handle the upload for document d returned (d = 0: the attachment)
HandleOf(d) ==
    IF Succeeded("upload", d)
    THEN calls[CHOOSE n \in 1..Len(calls) :
                   calls[n].op = "upload" /\ calls[n].doc = d /\ calls[n].ok].res
    ELSE None

Docs == 1..Len(pdf_files)

\* the documents taken into processing, in the order they were taken
RECURSIVE TakenUpTo(_)
TakenUpTo(n) ==
    IF n = 0 THEN <<>>
    ELSE IF out[n].msg = "processing"
         THEN Append(TakenUpTo(n - 1), pdf_files[out[n].doc])
         ELSE TakenUpTo(n - 1)

Taken == TakenUpTo(Len(out))

\* what this run has written to the sink
Appended == SubSeq(sink, Len(env.sink0) + 1, Len(sink))

FatalCondition ==
    \/ env.credential = "none"
    \/ env.prompt = "missing"
    \/ env.bib \in {"missing", "unparseable"}
    \/ env.dir = "missing"

PassedSetup ==
    /\ env.credential \in {"env", "inline"}
    /\ env.prompt = "read"
    /\ env.bib = "parsed"
    /\ env.dir = "listed"

(***************************************************************************)
(* C1                                                                      *)
(***************************************************************************)
\* C1: in a run whose attachment upload succeeded and whose scan returned a
\* listing (of any length), when the run has ended exactly one delete of the
\* attachment's handle has been requested.
C1_AttachmentDeletedOnceAtEnd ==
    (pc = "done" /\ env.manual = "uploaded" /\ env.dir = "listed") =>
        Cardinality({n \in CallsOf("delete", 0) :
                        calls[n].arg = siunitx_manual_file}) = 1

(***************************************************************************)
(* C2                                                                      *)
(***************************************************************************)
\* C2: the documents taken into processing are always an initial stretch of
\* the scan's result, each taken once and in scan order, and once the loop is
\* left (whatever failed in it) they are the whole result; a document's
\* failure is followed by the next document or by the end of the loop.
C2_FailureNeverAbortsBatch ==
    LET taken == Taken
    IN  /\ Len(taken) <= Len(pdf_files)
        /\ taken = SubSeq(pdf_files, 1, Len(taken))
        /\ Len(taken) = idx
        /\ (env.dir = "listed" /\ pc \in {"cleanup", "finished", "done"}) =>
               taken = pdf_files

\* the first of two documents failed at generation, the second was persisted
\* and archived
C2_Witness ==
    /\ pc = "done"
    /\ Len(pdf_files) = 2
    /\ Raised("generate", 1)
    /\ Printed("ERROR: skipping this file", 1)
    /\ Printed("summary appended", 2)
    /\ pdf_files[2] \in archive_dir

(***************************************************************************)
(* C3                                                                      *)
(***************************************************************************)
C3_FullySucceeded(i) ==
    /\ Succeeded("upload", i)
    /\ Succeeded("generate", i)
    /\ Printed("summary appended", i)
    /\ Succeeded("move", i)

\* C3: for a document whose upload, generation, persistence and archival all
\* succeeded, the run has appended exactly one record with that document's
\* text, its header holds the document's resolved key and the separator
\* follows, and the file is in the archive directory and not in the input
\* directory.
C3_SuccessPersistsAndArchives ==
    \A i \in Docs :
        C3_FullySucceeded(i) =>
            LET at == {p \in 1..Len(Appended) :
                          Appended[p] = [kind |-> "text", val |-> Text(i)]}
            IN  /\ Cardinality(at) = 1
                /\ \A p \in at :
                      /\ p > 1 /\ p < Len(Appended)
                      /\ Appended[p - 1] =
                            [kind |-> "header",
                             val |-> lookup_citekey(pdf_citekey_map, pdf_files[i])]
                      /\ Appended[p + 1] = [kind |-> "separator", val |-> <<>>]
                /\ pdf_files[i] \notin input_dir
                /\ pdf_files[i] \in archive_dir

\* a run over a sink with an earlier record ended after a document went
\* through all four steps
C3_Witness ==
    /\ pc = "done"
    /\ env.sink0 # <<>>
    /\ \E i \in Docs : C3_FullySucceeded(i) /\ Succeeded("delete", i)

(***************************************************************************)
(* C4                                                                      *)
(***************************************************************************)
\* C4: a remote delete that raises is never escalated: the document whose
\* handle it was is not reported as failed and skipped, and a run whose
\* attachment delete raised still ends normally, with the completion notice
\* and status 0.
C4_DeleteFailureNotEscalated ==
    /\ \A i \in Docs :
          Raised("delete", i) => ~ Printed("ERROR: skipping this file", i)
    /\ (pc = "done" /\ Raised("delete", 0)) =>
          (LastPrinted("pipeline finished") /\ exit_status = 0)

(***************************************************************************)
(* C5                                                                      *)
(***************************************************************************)
\* C5: a run that passed the fatal setup checks has, when it has ended,
\* printed the final completion notice as its last output.
C5_EndsWithCompletionNotice ==
    (pc = "done" /\ PassedSetup) => LastPrinted("pipeline finished")

(***************************************************************************)
(* C6                                                                      *)
(***************************************************************************)
C6_Diagnostic ==
    IF env.credential = "none" THEN "ERROR: API key not found"
    ELSE IF env.prompt = "missing" THEN "ERROR: master prompt not found"
    ELSE IF env.bib = "missing" THEN "ERROR: BibTeX file not found"
    ELSE IF env.bib = "unparseable" THEN "ERROR: failed to parse BibTeX file"
    ELSE "ERROR: input directory does not exist"

\* C6: once a fatal condition has been met the run has stopped with that
\* condition's diagnostic as its last output, and no document was uploaded,
\* no generation requested, nothing appended to the sink and no file moved.
C6_FatalStopsBeforeDocuments ==
    FatalCondition =>
        /\ pc = "done"
        /\ LastPrinted(C6_Diagnostic)
        /\ idx = 0
        /\ \A n \in 1..Len(calls) :
              /\ calls[n].op \notin {"generate", "move"}
              /\ calls[n].op = "upload" => calls[n].doc = 0
        /\ sink = env.sink0
        /\ archive_dir = {}

\* the run stopped on a missing prompt file with documents waiting
C6_Witness ==
    /\ pc = "done"
    /\ env.prompt = "missing"
    /\ eligible(env.listing) # <<>>

(***************************************************************************)
(* C7                                                                      *)
(***************************************************************************)
\* C7: the process ends with a non-zero status on every fatal condition and
\* with status 0 otherwise.
C7_ExitStatus ==
    pc = "done" =>
        IF FatalCondition THEN exit_status # 0 ELSE exit_status = 0

(***************************************************************************)
(* C8                                                                      *)
(***************************************************************************)
\* C8: when the auxiliary document is absent or its upload raised, the run
\* goes on to the scan and does not end on an exception, every generation
\* request holds exactly the prompt and the handle of the document it is
\* for, and no delete of an attachment is requested.
C8_NoAttachmentDegradesGracefully ==
    env.manual \in {"absent", "upload failed"} =>
        /\ pc # "upload_manual"
        /\ pc = "done" => (env.dir # "unread" /\ exit_status = 0)
        /\ \A n \in 1..Len(calls) :
              /\ calls[n].op = "generate" =>
                    calls[n].arg = <<PromptText, HandleOf(calls[n].doc)>>
              /\ calls[n].op = "delete" => calls[n].doc # 0

\* the upload of the auxiliary document raised and a document was summarised
\* in the run, which ended with the completion notice
C8_Witness ==
    /\ pc = "done"
    /\ env.manual = "upload failed"
    /\ \E i \in Docs : Succeeded("generate", i)
    /\ LastPrinted("pipeline finished")

(***************************************************************************)
(* C9                                                                      *)
(***************************************************************************)
\* C9: every generation request is <<prompt, attachment handle if one is
\* held, handle returned by the upload of the document the request is for>>,
\* and that document handle was returned by no other upload.
C9_RequestContent ==
    \A n \in 1..Len(calls) :
        calls[n].op = "generate" =>
            LET d == calls[n].doc
                handle == HandleOf(d)
            IN  /\ d \in Docs
                /\ handle # None
                /\ calls[n].arg =
                      IF env.manual = "uploaded"
                      THEN <<PromptText, HandleOf(0), handle>>
                      ELSE <<PromptText, handle>>
                /\ \A m \in 1..Len(calls) :
                      (calls[m].op = "upload" /\ calls[m].ok /\ calls[m].doc # d)
                          => calls[m].res # handle
                /\ Cardinality(CallsOf("upload", d)) = 1

\* two documents were summarised with the attachment held
C9_Witness ==
    /\ env.manual = "uploaded"
    /\ Succeeded("generate", 1)
    /\ Succeeded("generate", 2)

(***************************************************************************)
(* C12                                                                     *)
(***************************************************************************)
\* filename f up to, not including, its last '.'
C12_Stem(f) ==
    SubSeq(f, 1, (CHOOSE k \in 1..Len(f) :
                      f[k] = "." /\ \A j \in (k + 1)..Len(f) : f[j] # ".") - 1)

\* C12: the key resolved for the document in processing is the index's value
\* for its filename when the index has one and the filename without its
\* extension otherwise, and every document taken so far whose filename is not
\* in the index had the fallback reported.
C12_ResolvedKey ==
    /\ idx >= 1 =>
          citekey = IF pdf_files[idx] \in DOMAIN pdf_citekey_map
                    THEN pdf_citekey_map[pdf_files[idx]]
                    ELSE C12_Stem(pdf_files[idx])
    /\ \A i \in 1..idx :
          pdf_files[i] \notin DOMAIN pdf_citekey_map =>
              Printed("WARNING: using filename as fallback", i)

\* of two documents taken, one had its key from the index and the other fell
\* back to its filename
C12_Witness ==
    /\ idx = 2
    /\ \E i, j \in 1..2 :
          /\ pdf_files[i] \in DOMAIN pdf_citekey_map
          /\ pdf_citekey_map[pdf_files[i]] # C12_Stem(pdf_files[i])
          /\ pdf_files[j] \notin DOMAIN pdf_citekey_map
          /\ Printed("WARNING: using filename as fallback", j)

(***************************************************************************)
(* C13                                                                     *)
(***************************************************************************)
\* C13: a run whose scan listed the input directory and found no name ending
\* in .pdf/.html has ended there with status 0: no document was taken, no
\* document upload, generation or move was requested, and the sink and both
\* directories are as they were.
C13_EmptyScanEndsRun ==
    (env.dir = "listed" /\ \A k \in 1..Len(env.listing) : ~ is_paper_name(env.listing[k])) =>
        /\ pc = "done"
        /\ exit_status = 0
        /\ LastPrinted("no new papers found")
        /\ idx = 0
        /\ Taken = <<>>
        /\ \A n \in 1..Len(calls) : calls[n].op = "upload" /\ calls[n].doc = 0
        /\ sink = env.sink0
        /\ input_dir = {env.listing[k] : k \in 1..Len(env.listing)}
        /\ archive_dir = {}

\* the scan of a directory holding only another kind of file, over a sink
\* holding an earlier record
C13_Witness ==
    /\ pc = "done"
    /\ env.dir = "listed"
    /\ Len(env.listing) = 1
    /\ pdf_files = <<>>
    /\ sink # <<>>

(***************************************************************************)
(* C14                                                                     *)
(***************************************************************************)
\* the keys of the header lines among the first n writes of this run
RECURSIVE C14_HeaderKeys(_)
C14_HeaderKeys(n) ==
    IF n = 0 THEN <<>>
    ELSE IF Appended[n].kind = "header"
         THEN Append(C14_HeaderKeys(n - 1), Appended[n].val)
         ELSE C14_HeaderKeys(n - 1)

\* the resolved keys of the documents among the first n that were persisted
RECURSIVE C14_PersistedKeys(_)
C14_PersistedKeys(n) ==
    IF n = 0 THEN <<>>
    ELSE IF Printed("summary appended", n)
         THEN Append(C14_PersistedKeys(n - 1),
                     lookup_citekey(pdf_citekey_map, pdf_files[n]))
         ELSE C14_PersistedKeys(n - 1)

\* C14: every step leaves the sink's contents as a prefix of its new
\* contents, and the keys of the records the run has appended are, in order,
\* the resolved keys of the documents that were persisted.
C14_AppendOnlyInProcessingOrder ==
    /\ [][sink = SubSeq(sink', 1, Len(sink))]_vars
    /\ []((pc # "configure") =>
             C14_HeaderKeys(Len(Appended)) = C14_PersistedKeys(idx))

(***************************************************************************)
(* C15                                                                     *)
(***************************************************************************)
Failed(i) == Printed("ERROR: skipping this file", i)

\* how far document i has come: 0 Pending, 1 Uploaded, 2 Summarized,
\* 3 Persisted, 4 Archived, 5 CleanedUp
Stage(i) ==
    IF Succeeded("delete", i) THEN 5
    ELSE IF Succeeded("move", i) THEN 4
    ELSE IF Printed("summary appended", i) THEN 3
    ELSE IF Succeeded("generate", i) THEN 2
    ELSE IF Succeeded("upload", i) THEN 1
    ELSE 0

\* C15: a step leaves every document where it is or takes it to the next of
\* Pending, Uploaded, Summarized, Persisted, Archived, CleanedUp, and a failed
\* document moves no further; text of a document is in the sink only after
\* its generation succeeded, a move is requested only after its record was
\* persisted, and the delete of its handle only after it was archived.
C15_StepsInOrder ==
    /\ [][\A i \in 1..idx :
             LET before == Stage(i)
                 after == Stage(i)'
             IN  /\ after = before \/ after = before + 1
                 /\ Failed(i) => (after = before /\ Failed(i)')]_vars
    /\ [](\A i \in Docs :
             /\ Stage(i) > 0 => i <= idx
             /\ (\E p \in 1..Len(Appended) : Appended[p].val = Text(i))
                    => Succeeded("generate", i)
             /\ CallsOf("generate", i) # {} => Succeeded("upload", i)
             /\ Printed("summary appended", i) => Succeeded("generate", i)
             /\ CallsOf("move", i) # {} => Printed("summary appended", i)
             /\ CallsOf("delete", i) # {} => Succeeded("move", i))

\* a run ended with one document cleaned up and another failed after its
\* upload
C15_Witness ==
    /\ pc = "done"
    /\ \E i, j \in Docs :
          /\ Stage(i) = 5 /\ ~ Failed(i)
          /\ Stage(j) = 1 /\ Failed(j)

(***************************************************************************)
(* C17                                                                     *)
(***************************************************************************)
C17_NoLaterStep(i, ops) ==
    \A n \in 1..Len(calls) : ~ (calls[n].doc = i /\ calls[n].op \in ops)

C17_StillPending(i) ==
    pdf_files[i] \in input_dir /\ pdf_files[i] \notin archive_dir

C17_TextWritten(i) == \E p \in 1..Len(Appended) : Appended[p].val = Text(i)

\* persistence of document i raised
C17_PersistFailed(i) ==
    Succeeded("generate", i) /\ Failed(i) /\ ~ Printed("summary appended", i)

\* C17: a document that failed at upload, generation or persistence has its
\* file in the input directory and not in the archive; one whose archival
\* raised after persistence has its complete record in the sink and its file
\* in the input directory; in each case no later step of it was made, and
\* the calls for the documents are made document by document, each step at
\* most once and in the order upload, generate, move, delete, sleep.
C17_Rank(o) ==
    CASE o = "upload" -> 1 [] o = "generate" -> 2 [] o = "move" -> 3
      [] o = "delete" -> 4 [] OTHER -> 5

C17_NoRollbackNoFurtherStep ==
    LET DocsOf(o, k) ==
            {calls[n].doc : n \in {m \in 1..Len(calls) :
                                      /\ calls[m].op = o /\ calls[m].ok = k
                                      /\ calls[m].doc \in Docs}}
        uploadRaised == DocsOf("upload", FALSE)
        generateRaised == DocsOf("generate", FALSE)
        moveRaised == DocsOf("move", FALSE)
    IN  /\ \A i \in uploadRaised :
              /\ C17_NoLaterStep(i, {"generate", "move", "delete"})
              /\ ~ C17_TextWritten(i)
              /\ C17_StillPending(i)
        /\ \A i \in generateRaised :
              /\ C17_NoLaterStep(i, {"move", "delete"})
              /\ ~ C17_TextWritten(i)
              /\ C17_StillPending(i)
        /\ \A i \in DocsOf("generate", TRUE) :
              C17_PersistFailed(i) =>
                  /\ C17_NoLaterStep(i, {"move", "delete"})
                  /\ C17_StillPending(i)
        /\ \A i \in moveRaised :
              /\ C17_NoLaterStep(i, {"delete"})
              /\ \E p \in 2..(Len(Appended) - 1) :
                    /\ Appended[p - 1] =
                          [kind |-> "header",
                           val |-> lookup_citekey(pdf_citekey_map, pdf_files[i])]
                    /\ Appended[p] = [kind |-> "text", val |-> Text(i)]
                    /\ Appended[p + 1] = [kind |-> "separator", val |-> <<>>]
              /\ C17_StillPending(i)
        /\ \A n \in 1..(Len(calls) - 1) :
              \/ calls[n].doc = 0
              \/ calls[n + 1].doc = 0
              \/ calls[n].doc < calls[n + 1].doc
              \/ /\ calls[n].doc = calls[n + 1].doc
                 /\ C17_Rank(calls[n].op) < C17_Rank(calls[n + 1].op)

\* a run ended after the archival of one document raised and the upload of
\* another raised
C17_Witness ==
    /\ pc = "done"
    /\ \E i, j \in Docs : Raised("move", i) /\ Raised("upload", j)

(***************************************************************************)
(* C16                                                                     *)
(***************************************************************************)
\* document i's processing is over: a later document was taken or the loop
\* is back at its head or left
C16_ProcessingOver(i) ==
    i < idx \/ (i = idx /\ pc \in {"for", "cleanup", "finished", "done"})

\* C16: once the processing of a document whose upload succeeded is over,
\* exactly one delete of its handle has been requested, and no handle ever
\* has more than one delete requested.
C16_EveryHandleDeletedOnce ==
    \A i \in Docs :
        Succeeded("upload", i) =>
            LET requests == {n \in 1..Len(calls) :
                                calls[n].op = "delete" /\ calls[n].arg = HandleOf(i)}
            IN  /\ Cardinality(requests) <= 1
                /\ C16_ProcessingOver(i) => Cardinality(requests) = 1

(***************************************************************************)
(* C18                                                                     *)
(***************************************************************************)
\* C18: between persistence steps, what the run has appended to the sink is
\* a sequence of complete records: a header line, then the text, then the
\* separator.
C18_OnlyCompleteRecords ==
    /\ Len(Appended) % 3 = 0
    /\ \A p \in 1..Len(Appended) :
          Appended[p].kind = CASE p % 3 = 1 -> "header"
                               [] p % 3 = 2 -> "text"
                               [] OTHER -> "separator"

(***************************************************************************)
(* C19                                                                     *)
(***************************************************************************)
\* C19: every document that has a successor taken into processing was
\* followed by a pacing delay before that.
C19_PacingDelayBetweenDocuments ==
    \A i \in 1..(idx - 1) : CallsOf("sleep", i) # {}

(***************************************************************************)
(* C20                                                                     *)
(***************************************************************************)
\* C20: for every document taken, the fallback notice was printed exactly
\* when its filename is not in the index, and the found-citekey notice
\* exactly when it is.
C20_FallbackIffAbsent ==
    \A i \in 1..idx :
        /\ Printed("WARNING: using filename as fallback", i)
              <=> pdf_files[i] \notin DOMAIN pdf_citekey_map
        /\ Printed("found citekey", i)
              <=> pdf_files[i] \in DOMAIN pdf_citekey_map

(***************************************************************************)
(* Direct calls of parse_file_path_from_entry on generated file fields.    *)
(***************************************************************************)
ExampleField ==
    <<":", "s", "u", "b", "/", "d", "i", "r", "/", "n", "a", "m", "e",
      ".", "p", "d", "f", ":", "P", "D", "F">>
ExamplePath ==
    <<"s", "u", "b", "/", "d", "i", "r", "/", "n", "a", "m", "e", ".", "p", "d", "f">>

Frags ==
    { <<":">>, <<";">>, <<"x">>, <<"d", "/", "n">>,
      DotPdf, <<".", "P", "D", "F">>, DotHtml, <<".", "H", "t", "m", "L">> }

RECURSIVE Fields(_)
Fields(n) ==
    IF n = 0 THEN {<<>>}
    ELSE LET prev == Fields(n - 1)
         IN  prev \cup {p \o f : p \in prev, f \in Frags}

FileFields == Fields(MaxFrags) \cup {ExampleField}

UnusedPipelineVars ==
    /\ env = None /\ master_prompt = None /\ pdf_citekey_map = <<>>
    /\ siunitx_manual_file = None /\ pdf_files = <<>> /\ idx = 0
    /\ citekey = None /\ uploaded_file = None /\ response = None
    /\ sink = <<>> /\ input_dir = {} /\ archive_dir = {} /\ next_handle = 1
    /\ out = <<>> /\ calls = <<>> /\ exit_status = -1

PipelineVars ==
    <<env, master_prompt, pdf_citekey_map, siunitx_manual_file, pdf_files, idx,
      citekey, uploaded_file, response, sink, input_dir, archive_dir,
      next_handle, out, calls, exit_status>>

InitParse ==
    /\ pc = "parse_call"
    /\ file_field_string \in FileFields
    /\ parse_result = None
    /\ bib_entries = <<>>
    /\ mapping_result = None
    /\ UnusedPipelineVars

CallParse ==
    /\ pc = "parse_call"
    /\ parse_result' = parse_file_path_from_entry(file_field_string)
    /\ pc' = "parse_ret"
    /\ UNCHANGED <<file_field_string, bib_entries, mapping_result, PipelineVars>>

NextParse == CallParse

SpecParse == InitParse /\ [][NextParse]_vars

(***************************************************************************)
(* Direct calls of create_pdf_to_citekey_map on generated bibliographies.  *)
(***************************************************************************)
\* longest generated bibliography
MaxEntries == 2

EntryIDs == {<<"k", "1">>, <<"k", "2">>, <<>>, None}

EntryFiles ==
    { <<":", "d", "/", "a", ".", "p", "d", "f", ":", "P", "D", "F">>,
      <<"e", "/", "f", "/", "a", ".", "p", "d", "f">>,
      <<"b", ".", "P", "D", "F">>,
      <<"x", ":", "P", "D", "F">>,
      <<>>, None }

Entries == [ID : EntryIDs, file : EntryFiles]

Bibliographies == UNION {[1..n -> Entries] : n \in 0..MaxEntries}

InitMap ==
    /\ pc = "map_call"
    /\ bib_entries \in Bibliographies
    /\ mapping_result = None
    /\ file_field_string = None
    /\ parse_result = None
    /\ UnusedPipelineVars

CallCreateMap ==
    /\ pc = "map_call"
    /\ mapping_result' = create_pdf_to_citekey_map(bib_entries)
    /\ pc' = "map_ret"
    /\ UNCHANGED <<bib_entries, file_field_string, parse_result, PipelineVars>>

NextMap == CallCreateMap

SpecMap == InitMap /\ [][NextMap]_vars

(***************************************************************************)
(* C11                                                                     *)
(***************************************************************************)
\* the part of path p after its last '/', stated by what it is
C11_Filename(p) ==
    CHOOSE t \in {SubSeq(p, k, Len(p)) : k \in 1..(Len(p) + 1)} :
        /\ \A j \in 1..Len(t) : t[j] # "/"
        /\ Len(t) = Len(p) \/ p[Len(p) - Len(t)] = "/"

C11_HasBoth(e) == e.ID \notin {None, <<>>} /\ e.file \notin {None, <<>>}

\* positions of the entries that record something under filename f
C11_Recording(f) ==
    {i \in 1..Len(bib_entries) :
        /\ C11_HasBoth(bib_entries[i])
        /\ parse_file_path_from_entry(bib_entries[i].file) # None
        /\ C11_Filename(parse_file_path_from_entry(bib_entries[i].file)) = f}

C11_Filenames ==
    {C11_Filename(parse_file_path_from_entry(bib_entries[i].file)) :
        i \in {j \in 1..Len(bib_entries) :
                  /\ C11_HasBoth(bib_entries[j])
                  /\ parse_file_path_from_entry(bib_entries[j].file) # None}}

\* C11: the map create_pdf_to_citekey_map returns has as keys exactly the
\* filenames (no directory component) that some entry with a citation key and
\* a resolving file field records, each mapped to the citation key of the
\* last such entry; other entries contribute nothing.
C11_MapIsLastWinsOnBasenames ==
    pc = "map_ret" =>
        /\ DOMAIN mapping_result = C11_Filenames
        /\ \A f \in DOMAIN mapping_result :
              /\ \A j \in 1..Len(f) : f[j] # "/"
              /\ C11_Recording(f) # {}
              /\ mapping_result[f] =
                    bib_entries[CHOOSE i \in C11_Recording(f) :
                                    \A j \in C11_Recording(f) : j <= i].ID

\* two entries with different citation keys and paths in different
\* directories record the same filename
C11_Witness ==
    /\ pc = "map_ret"
    /\ \E f \in DOMAIN mapping_result :
          \E i, j \in C11_Recording(f) :
              /\ i < j
              /\ bib_entries[i].ID # bib_entries[j].ID
              /\ bib_entries[i].file # bib_entries[j].file
              /\ mapping_result[f] = bib_entries[j].ID

(***************************************************************************)
(* C10                                                                     *)
(***************************************************************************)
\* positions of the character ch strictly between positions a and b of s
C10_Seps(s, ch, a, b) == {i \in (a + 1)..(b - 1) : s[i] = ch}

\* the maximal ch-free stretches between a and b, as pairs of their borders
C10_Pieces(s, ch, a, b) ==
    {pr \in (C10_Seps(s, ch, a, b) \cup {a}) \X (C10_Seps(s, ch, a, b) \cup {b}) :
        /\ pr[1] < pr[2]
        /\ C10_Seps(s, ch, pr[1], pr[2]) = {}}

C10_Text(s, pr) == SubSeq(s, pr[1] + 1, pr[2] - 1)

C10_Qualifies(s, seg) ==
    \E suf \in {DotPdf, DotHtml} :
        /\ Len(C10_Text(s, seg)) >= Len(suf)
        /\ \A k \in 1..Len(suf) : LowerChar(s[seg[2] - 1 - Len(suf) + k]) = suf[k]

C10_Considered(s, part) ==
    \E suf \in {DotPdf, DotHtml} :
        \E i \in (part[1] + 1)..(part[2] - Len(suf)) :
            \A k \in 1..Len(suf) : LowerChar(s[i + k - 1]) = suf[k]

C10_GoodSegs(s, part) ==
    {seg \in C10_Pieces(s, ":", part[1], part[2]) : C10_Qualifies(s, seg)}

C10_Reference(s) ==
    LET good == {part \in C10_Pieces(s, ";", 0, Len(s) + 1) :
                    C10_Considered(s, part) /\ C10_GoodSegs(s, part) # {}}
    IN  IF s = <<>> \/ good = {} THEN None
        ELSE LET part == CHOOSE p \in good : \A q \in good : p[1] <= q[1]
                 seg == CHOOSE g \in C10_GoodSegs(s, part) :
                            \A h \in C10_GoodSegs(s, part) : h[1] <= g[1]
             IN  C10_Text(s, seg)

C10_NoOccurrence(s) ==
    \A i \in 1..Len(s) : \A suf \in {DotPdf, DotHtml} :
        i + Len(suf) - 1 > Len(s)
        \/ \E k \in 1..Len(suf) : LowerChar(s[i + k - 1]) # suf[k]

\* C10: every call of parse_file_path_from_entry returns what the reference
\* gives for its argument: the last qualifying ':'-segment of the first
\* considered ';'-part that has one, no match for the empty string and for a
\* string without '.pdf'/'.html', and 'sub/dir/name.pdf' for
\* ':sub/dir/name.pdf:PDF'.
C10_ParseMatchesReference ==
    pc = "parse_ret" =>
        /\ parse_result = C10_Reference(file_field_string)
        /\ file_field_string = ExampleField => parse_result = ExamplePath
        /\ file_field_string = <<>> => parse_result = None
        /\ C10_NoOccurrence(file_field_string) => parse_result = None

\* a call skipped a first part that holds '.pdf' in no qualifying segment and
\* returned a segment of a later part
C10_Witness ==
    /\ pc = "parse_ret"
    /\ parse_result # None
    /\ LET parts == split(file_field_string, ";")
       IN  /\ Len(parts) >= 2
           /\ contains(lower(parts[1]), DotPdf)
           /\ \A k \in 1..Len(split(parts[1], ":")) :
                  ~ is_paper_name(split(parts[1], ":")[k])

====
